---- MODULE Spec2Model ----
(***************************************************************************)
(* Model of the structural parser (backend/services/parser.py) and the     *)
(* structural matcher (backend/services/matcher.py).                       *)
(*                                                                         *)
(* Text is modelled at token level.  A line or a node text is a sequence   *)
(* of tokens, a token being a record [w, k]: a word (w, the Hebrew word    *)
(* transliterated to ASCII; k = <<>>) or a dotted number (k, the sequence  *)
(* of its integer components, "3.2.1" being <<3, 2, 1>> and "100" being    *)
(* <<100>>; w = "").  Tokens of a sequence are separated by one space; the *)
(* token Blank stands for surplus white space (leading, trailing or        *)
(* doubled), which _normalize_whitespace removes.                          *)
(*                                                                         *)
(* Transliterations: perek = the chapter word, nispachim = the annex       *)
(* section word (plural), nispach = the annex word (singular), lenispach   *)
(* alef = "(to annex A)", gimel - tofes bikoret tavruit bebeit ochel = the *)
(* rest of the end-of-sub-appendix title, gaz = gas, lagaz = "for gas"     *)
(* (gas with a one-letter prefix), gapam = LPG, basar = meat, mishloach =  *)
(* delivery, shetach = area, bashetach = "in an area" (area with a         *)
(* one-letter prefix), mr = the square-metre abbreviation, meal = "above", *)
(* gadol me / yoter me = "greater than" / "more than", mitachat = "under", *)
(* katan me / pachot me = "smaller than" / "less than", lefachot = "at     *)
(* least", lo = "not", ad = "up to", bein .. le = "between .. and",        *)
(* mekomot = "places" (seats), drisha = "requirement", drishot tavrua =    *)
(* "sanitation requirements", bullet = a one-letter enumeration bullet     *)
(* "x.", stop = a word that ends a sentence.                               *)
(*                                                                         *)
(* Optional values: None is <<>>, a present value x is <<x>>.  The None    *)
(* context of the code is the string "None".  Objects are indices into the *)
(* sequence heap; a children list is a sequence of such indices.           *)
(***************************************************************************)
EXTENDS Integers, Sequences, FiniteSets, TLC

VARIABLES
    pc,            \* position of the running call
    lines,         \* parser: the caller's list of lines (mutated in place)
    i,             \* parser: loop index (1-based)
    seen_chapter1, \* parser
    context,       \* parser: "None" / "annex4" / "annex5"
    annex4_level,  \* parser
    annex5_level,  \* parser
    stacks,        \* parser: roots and level1_stack .. level5_stack
    last_node,     \* parser: object index of the open node, 0 for None
    heap,          \* the SectionNode objects, by object index
    tree,          \* parser: the forest being built / matcher: input forest
    calls,         \* parser: number of calls made on the list `lines`
    lines0,        \* history: the list as the caller passed it to the first call
    prev,          \* history: the forest the previous call returned
    business,      \* matcher: the profile
    mode,          \* matcher: "advanced" (match_structure_advanced) or "basic"
    nIn,           \* matcher: number of objects of the input forest
    heap0,         \* history: the input objects as they were before the call
    flat,          \* matcher: the flat index, in dict insertion order
    ret,           \* matcher: dfs return value per visited input object
    copyOf,        \* history: per heap object, the input object it was built from
    results,       \* matcher: the returned list
    relNode,       \* relevance test: the node under test
    relOut         \* relevance test: the two verdicts, once evaluated

vars == <<pc, lines, i, seen_chapter1, context, annex4_level, annex5_level,
          stacks, last_node, heap, tree, calls, lines0, prev, business, mode,
          nIn, heap0, flat, ret, copyOf, results, relNode, relOut>>

parserVars == <<lines, i, seen_chapter1, context, annex4_level, annex5_level,
                stacks, last_node, calls, lines0, prev>>
matcherVars == <<mode, nIn, heap0, flat, ret, copyOf, results>>
relVars == <<relNode, relOut>>

----
\* Generic helpers

None == <<>>
Some(x) == <<x>>

\* An assignment to a local: v is computed once and handed to F
Bind(v, F(_)) == CHOOSE r \in {F(x) : x \in {v}} : TRUE

Min2(a, b) == IF a <= b THEN a ELSE b
Max2(a, b) == IF a >= b THEN a ELSE b

\* Python slice s[a:b] on 1-based positions a..b, clamped to the sequence.
PySlice(s, a, b) == SubSeq(s, Max2(a, 1), Min2(b, Len(s)))

Take(s, n) == SubSeq(s, 1, Min2(n, Len(s)))

IsPrefixSeq(p, s) == Len(p) <= Len(s) /\ SubSeq(s, 1, Len(p)) = p

MinOf(S) == CHOOSE x \in S : \A y \in S : x <= y

\* The elements of a finite set of integers, ascending.
RECURSIVE AscSeq(_)
AscSeq(S) == IF S = {} THEN <<>> ELSE <<MinOf(S)>> \o AscSeq(S \ {MinOf(S)})

W(word) == [w |-> word, k |-> <<>>]
K(key) == [w |-> "", k |-> key]
Blank == W(" ")

IsNum(t) == t.k # <<>>

----
\* Patterns of parser.py, at token level

\* re.sub(r"\s+", " ", text).strip(): surplus white space goes.
_normalize_whitespace(text) == SelectSeq(text, LAMBDA t : t # Blank)

MaxKeyLen == 6
\* A dotted key of 2..6 components: \d+(?:\.\d+){1,5}
IsKey(t) == Len(t.k) >= 2 /\ Len(t.k) <= MaxKeyLen

\* SECTION_RE: ^(\d+(?:\.\d+){1,5})\.?\s+(.+)$ : a key, then a non-empty body.
SECTION_RE(raw) == Len(raw) >= 2 /\ IsKey(raw[1])

\* CHAPTER1_RE / CHAPTER5_RE: ^perek\s*N\b
ChapterRE(raw, n) ==
    Len(raw) >= 2 /\ raw[1] = W("perek") /\ IsNum(raw[2]) /\ raw[2].k[1] = n
CHAPTER1_RE(raw) == ChapterRE(raw, 1)
CHAPTER5_RE(raw) == ChapterRE(raw, 5)

ANNEX4_START == <<W("nispachim")>>
ANNEX5_START == <<W("nispach"), K(<<1>>), W("lenispach"), W("alef")>>
\* ANNEX5_END_RE: ^nispach\s*gimel['"]?\s*-\s*<form title>
ANNEX5_END_RE(raw) ==
    IsPrefixSeq(<<W("nispach"), W("gimel"), W("-"), W("tofes"), W("bikoret"),
                  W("tavruit"), W("bebeit"), W("ochel")>>, raw)

\* Substring tests of the header heuristics (k in body)
HasGas(t) == t.w \in {"gaz", "lagaz"}
HasMeat(t) == t.w \in {"basar"}
HasDelivery(t) == t.w \in {"mishloach"}
\* r"perek\s+\d+|nispach(?:im)?" : positions where the marker pattern starts
HasAnnexWord(t) == t.w \in {"nispach", "nispachim", "lenispach"}
MarkerAt(text, p) ==
    \/ HasAnnexWord(text[p])
    \/ text[p] = W("perek") /\ p < Len(text) /\ IsNum(text[p + 1])
\* r"(?:^|\s)([alef-tav]\.\s|\d+\.\s|\(\d{1,2}\)\s)" : a bullet followed by space
EnumAt(text, p) == text[p] = W("bullet") /\ p < Len(text)

\* text[:m.start()] for the first position where At holds, else text
CutAtFirst(text, At(_, _)) ==
    LET ps == {p \in 1..Len(text) : At(text, p)}
    IN  IF ps = {} THEN text ELSE SubSeq(text, 1, MinOf(ps) - 1)

\* A variant of the area notion of line 247 without the abbreviations
IsAreaTerm_words_only(t) == t.w \in {"shetach"}

\* Whole-word tests ((?<!\w)...(?!\w))
IsAreaTerm(t) == t.w \in {"shetach", "mr"}
IsSeatNoun(t) == t.w \in {"mekomot"}
\* The number a comparative pattern captures after its phrase: (\d{1,4})(?!\w)
MaxDigitsValue == 9999
CapturesNumber(t) == IsNum(t) /\ t.k[1] <= MaxDigitsValue

\* The comparative phrases of derive_area_bounds / _area_matches, three per
\* bucket, each a sequence of words that a captured number follows.
gt_patterns == << <<W("meal")>>, <<W("gadol"), W("me")>>, <<W("yoter"), W("me")>> >>
lt_patterns == << <<W("mitachat")>>, <<W("katan"), W("me")>>, <<W("pachot"), W("me")>> >>
ge_patterns ==
    << <<W("lefachot")>>, <<W("lo"), W("pachot"), W("me")>>, <<W("minimum")>> >>
le_patterns ==
    << <<W("ad")>>, <<W("lo"), W("yoter"), W("me")>>, <<W("maximum")>> >>

PhraseAt(t, phrase, p) ==
    /\ p + Len(phrase) <= Len(t)
    /\ SubSeq(t, p, p + Len(phrase) - 1) = phrase
    /\ CapturesNumber(t[p + Len(phrase)])

\* re.search(p, t): the number captured by the first match, or None
SearchPhrase(t, phrase) ==
    LET ps == {p \in 1..Len(t) : PhraseAt(t, phrase, p)}
    IN  IF ps = {} THEN None ELSE Some(t[MinOf(ps) + Len(phrase)].k[1])

\* between X to Y: bein\s*(\d{1,4})\s*le\s*(\d{1,4})
BetweenAt(t, p) ==
    /\ p + 3 <= Len(t)
    /\ t[p] = W("bein") /\ CapturesNumber(t[p + 1])
    /\ t[p + 2] = W("le") /\ CapturesNumber(t[p + 3])

\* scan(patterns, set_min / set_max): folds the first match of each pattern
RECURSIVE scan(_, _, _, _, _)
scan(t, patterns, n, acc, set_min) ==
    IF n > Len(patterns) THEN acc
    ELSE LET m == SearchPhrase(t, patterns[n])
             acc2 == IF m = None THEN acc
                     ELSE IF acc = None THEN m
                     ELSE IF set_min THEN Some(Max2(acc[1], m[1]))
                     ELSE Some(Min2(acc[1], m[1]))
         IN  scan(t, patterns, n + 1, acc2, set_min)

derive_area_bounds(t) ==
    IF ~ \E p \in 1..Len(t) : IsAreaTerm(t[p]) THEN <<None, None>>
    ELSE LET bs == {p \in 1..Len(t) : BetweenAt(t, p)}
         IN  IF bs # {}
             THEN LET a == t[MinOf(bs) + 1].k[1]
                      b2 == t[MinOf(bs) + 3].k[1]
                  IN  <<Some(Min2(a, b2)), Some(Max2(a, b2))>>
             ELSE LET min1 == scan(t, gt_patterns, 1, None, TRUE)
                      min_b == scan(t, ge_patterns, 1, min1, TRUE)
                      max1 == scan(t, lt_patterns, 1, None, FALSE)
                      max_b == scan(t, le_patterns, 1, max1, FALSE)
                  IN  <<min_b, max_b>>

\* seats_vals: (\d{1,4})\s*(?:seat noun)
seats_vals(body) ==
    {body[p].k[Len(body[p].k)] : p \in {q \in 1..(Len(body) - 1) :
        IsNum(body[q]) /\ body[q].k[Len(body[q].k)] <= MaxDigitsValue
        /\ IsSeatNoun(body[q + 1])}}
MaxOf(S) == CHOOSE x \in S : \A y \in S : x >= y

TitleWords == 8
make_title(t) == Take(t, TitleWords)

\* class SectionNode, the fields in the order of the keyword arguments
SectionNode(id, level, title, text, ctx, grp, amin, amax, smin, smax, gas, meat, dlv, ch) ==
    [id |-> id, level |-> level, title |-> title, text |-> text,
     context |-> ctx, group_level |-> grp,
     min_area_sqm |-> amin, max_area_sqm |-> amax,
     min_seats |-> smin, max_seats |-> smax,
     requires_gas |-> gas, serves_meat |-> meat,
     offers_delivery |-> dlv, children |-> ch]

\* Dicts keyed by id
EmptyDict == [x \in {} |-> 0]
Get(d, key) == IF key \in DOMAIN d THEN d[key] ELSE 0
Put(d, key, v) == (key :> v) @@ d

\* heuristics: x or None
OrNone(b) == IF b THEN Some(TRUE) ELSE None

----
\* _extract_section_tree_from_lines: one iteration of its while loop, as an
\* operator on the record s of the function's locals and the heap.

\* f"{key} {body_text}"
FString(key, body_text) ==
    <<K(key)>> \o (IF body_text = <<>> THEN <<Blank>> ELSE body_text)

\* re.finditer(r"(\d+(?:\.\d+){1,4})\.?\s+", line): keys that white space follows
MaxInlineKeyLen == 5
SplitMatches(line) ==
    AscSeq({p \in 1..(Len(line) - 1) :
                Len(line[p].k) >= 2 /\ Len(line[p].k) <= MaxInlineKeyLen})

_split_inline_headers(line) ==
    LET matches == SplitMatches(line)
    IN  IF matches = <<>> THEN <<line>>
        ELSE [idx \in 1..Len(matches) |->
                LET body_end == IF idx < Len(matches) THEN matches[idx + 1] - 1
                                ELSE Len(line)
                IN  FString(line[matches[idx]].k,
                            PySlice(line, matches[idx] + 1, body_end))]

\* The guard of the inline split: SECTION_RE.search(raw) and not
\* raw.startswith(<the key SECTION_RE matched>)
InlineSplitGuard(raw) == SECTION_RE(raw) /\ ~ IsPrefixSeq(<<K(raw[1].k)>>, raw)

InlineSplit(s, raw) ==
    LET segs == _split_inline_headers(raw)
    IN  [s EXCEPT !.lines = SubSeq(s.lines, 1, s.i - 1) \o segs
                            \o SubSeq(s.lines, s.i + 1, Len(s.lines))]

\* The first-sentence rule of the legacy node: combined[:mfs.end()] for the
\* first of [.!?]; a dotted key is cut after its first dot.
LegacyId == <<8, 5, 9>>
HasStop(t) == t.w \in {"stop", "bullet"} \/ Len(t.k) >= 2
FirstSentence(text) ==
    LET ps == {p \in 1..Len(text) : HasStop(text[p])}
    IN  IF ps = {} THEN text
        ELSE LET p == MinOf(ps)
             IN  SubSeq(text, 1, p - 1)
                 \o <<IF IsNum(text[p]) THEN [w |-> ".", k |-> <<text[p].k[1]>>]
                      ELSE text[p]>>

\* A variant of lines 195-213 that appends to the first node created
FreeText_first_node(s, raw) ==
    LET tail == CutAtFirst(CutAtFirst(raw, MarkerAt), EnumAt)
        n == IF s.heap = <<>> THEN 0 ELSE 1
        combined == s.heap[n].text \o tail
    IN  [s EXCEPT !.i = s.i + 1,
                  !.heap = IF n # 0 /\ tail # <<>>
                           THEN [s.heap EXCEPT ![n].text = combined]
                           ELSE s.heap]

\* lines 195-213: a line that is no header
FreeText(s, raw) ==
    Bind(CutAtFirst(CutAtFirst(raw, MarkerAt), EnumAt), LAMBDA tail :
    LET n == s.last_node
        combined == s.heap[n].text \o tail
    IN  [s EXCEPT !.i = s.i + 1,
                  !.heap = IF n # 0 /\ tail # <<>>
                           THEN [s.heap EXCEPT ![n].text =
                                    IF s.heap[n].id = LegacyId
                                    THEN FirstSentence(combined) ELSE combined]
                           ELSE s.heap])

\* lines 222-235: positions of the headers embedded in a body
InnerMatches(body) == AscSeq({p \in 1..(Len(body) - 1) : IsKey(body[p])})

\* lines 225-235: the lines pushed for the embedded headers.  `body` is the
\* body as already cut for idx == 0; the offsets are those of the old body.
InnerLines(old_body, body, inner) ==
    [idx \in 1..Len(inner) |->
        LET end_pos == IF idx < Len(inner) THEN inner[idx + 1] - 1 ELSE Len(body)
            seg_body == PySlice(body, inner[idx] + 1, end_pos)
        IN  FString(old_body[inner[idx]].k, seg_body)]

\* A variant of lines 329-335 that labels every node of an annex with the
\* label of the annex's first group, whatever the node's depth
GroupLabel_first_group(ctx, level) ==
    IF ctx = "annex4" THEN "4.1" ELSE IF ctx = "annex5" THEN "5.1" ELSE "None"

\* lines 329-335
GroupLabel(ctx, level) ==
    IF ctx = "annex4"
    THEN (IF level = 2 THEN "4.2" ELSE IF level = 3 THEN "4.3" ELSE "4.1")
    ELSE IF ctx = "annex5"
    THEN (IF level = 2 THEN "5.2" ELSE IF level = 3 THEN "5.3" ELSE "5.1")
    ELSE "None"

\* lines 306-327: the display text of a header body
DisplayBody(key, body) ==
    LET cut == CutAtFirst(CutAtFirst(body, MarkerAt), EnumAt)
    IN  IF key = LegacyId THEN FirstSentence(cut) ELSE cut

\* lines 238-241, 300-305, 337-352: the node a header creates
NewNode(key, level, body, ctx) ==
    LET bounds == derive_area_bounds(body)
        sv == seats_vals(body)
        display_body == DisplayBody(key, body)
    IN  SectionNode(key, level, Some(make_title(display_body)), display_body,
                    ctx, GroupLabel(ctx, level), bounds[1], bounds[2],
                    IF sv = {} THEN None ELSE Some(MinOf(sv)),
                    IF sv = {} THEN None ELSE Some(MaxOf(sv)),
                    OrNone(\E p \in 1..Len(body) : HasGas(body[p])),
                    OrNone(\E p \in 1..Len(body) : HasMeat(body[p])),
                    OrNone(\E p \in 1..Len(body) : HasDelivery(body[p])),
                    <<>>)

AppendChild(h, parent, o) ==
    [h EXCEPT ![parent].children = Append(@, o)]

\* lines 354-424: attaches object o (already on the heap h) and records it
Attach(s, h, o, key, level) ==
    LET st == s.stacks
        parent == IF level = 1 THEN 0
                  ELSE Get(st.level[level - 1], SubSeq(key, 1, Len(key) - 1))
        fallback == IF level >= 3
                    THEN Get(st.level[level - 2], SubSeq(key, 1, level - 2))
                    ELSE 0
        target == IF parent # 0 THEN parent ELSE fallback
        st1 == IF level = 1 THEN [st EXCEPT !.roots = Put(@, key, o)] ELSE st
        st2 == IF level <= 5
               THEN [st1 EXCEPT !.level[level] = Put(@, key, o)] ELSE st1
    IN  [s EXCEPT !.stacks = st2,
                  !.heap = IF target # 0 THEN AppendChild(h, target, o) ELSE h,
                  !.tree = IF target # 0 THEN s.tree ELSE Append(s.tree, o),
                  !.last_node = o,
                  !.i = s.i + 1]

\* lines 214-425: a header line
Header(s, raw) ==
    LET key == raw[1].k
        old_body == SubSeq(raw, 2, Len(raw))
        level == Min2(Len(key), MaxKeyLen)
    IN  Bind(InnerMatches(old_body), LAMBDA inner :
        Bind(IF inner = <<>> THEN old_body
             ELSE SubSeq(old_body, 1, inner[1] - 1), LAMBDA body :
        Bind(IF inner = <<>> THEN s
             ELSE [s EXCEPT !.lines = SubSeq(s.lines, 1, s.i)
                               \o InnerLines(old_body, body, inner)
                               \o SubSeq(s.lines, s.i + 1, Len(s.lines))], LAMBDA s1 :
        Bind(Append(s.heap, NewNode(key, level, body, s.context)), LAMBDA h :
            IF s.context = "None" /\ level = 1 THEN [s EXCEPT !.i = s.i + 1]
            ELSE Attach(s1, h, Len(h), key, level)))))

\* A variant of lines 157-182 in which the end-of-sub-appendix marker leaves
\* the context as it is
ContextTransition_end_ignored(s, raw) ==
    IF IsPrefixSeq(ANNEX4_START, raw)
    THEN [s EXCEPT !.context = "annex4", !.annex4_level = "4.1",
                   !.annex5_level = "None"]
    ELSE IF IsPrefixSeq(ANNEX5_START, raw)
    THEN [s EXCEPT !.context = "annex5", !.annex5_level = "5.1"]
    ELSE IF CHAPTER5_RE(raw) /\ ~ ANNEX5_END_RE(raw) THEN [s EXCEPT !.context = "None"]
    ELSE s

\* lines 157-182: the context transitions other than the fast-forward
ContextTransition(s, raw) ==
    IF IsPrefixSeq(ANNEX4_START, raw)
    THEN [s EXCEPT !.context = "annex4", !.annex4_level = "4.1",
                   !.annex5_level = "None"]
    ELSE IF IsPrefixSeq(ANNEX5_START, raw)
    THEN [s EXCEPT !.context = "annex5", !.annex5_level = "5.1"]
    ELSE IF ANNEX5_END_RE(raw) THEN [s EXCEPT !.context = "annex4"]
    ELSE IF CHAPTER5_RE(raw) THEN [s EXCEPT !.context = "None"]
    ELSE s

\* lines 165-179: the positions the fast-forward may land on
Chapter5After(s) ==
    {j \in (s.i + 1)..Len(s.lines) : CHAPTER5_RE(_normalize_whitespace(s.lines[j]))}

FastForwards(s, raw) ==
    /\ ~ IsPrefixSeq(ANNEX4_START, raw)
    /\ ~ IsPrefixSeq(ANNEX5_START, raw)
    /\ ANNEX5_END_RE(raw)
    /\ Chapter5After(s) # {}

\* A variant of lines 145-425 that reads the lines before the Chapter 1
\* marker as it reads the lines after it
Iterate_reading_front_matter(s) ==
    LET s0 == [s EXCEPT !.seen_chapter1 = TRUE]
        raw == _normalize_whitespace(s0.lines[s0.i])
    IN  IF raw = <<>> THEN [s0 EXCEPT !.i = s0.i + 1]
        ELSE IF FastForwards(s0, raw)
        THEN [s0 EXCEPT !.context = "annex4", !.i = MinOf(Chapter5After(s0))]
        ELSE LET s2 == ContextTransition(s0, raw)
             IN  IF SECTION_RE(raw) THEN Header(s2, raw) ELSE FreeText(s2, raw)

\* A variant of lines 145-425 whose fast-forward leaves the index on the
\* end-of-sub-appendix marker
Iterate_jump_standing(s) ==
    LET raw == _normalize_whitespace(s.lines[s.i])
    IN  IF raw = <<>> THEN [s EXCEPT !.i = s.i + 1]
        ELSE IF ~ s.seen_chapter1 /\ ~ CHAPTER1_RE(raw) THEN [s EXCEPT !.i = s.i + 1]
        ELSE LET s1 == [s EXCEPT !.seen_chapter1 = TRUE]
             IN  IF FastForwards(s1, raw)
                 THEN [s1 EXCEPT !.context = "annex4"]
                 ELSE LET s2 == ContextTransition(s1, raw)
                      IN  IF SECTION_RE(raw) THEN Header(s2, raw)
                          ELSE FreeText(s2, raw)

\* lines 145-425: the loop body
Iterate(s) ==
    Bind(_normalize_whitespace(s.lines[s.i]), LAMBDA raw :
        IF raw = <<>> THEN [s EXCEPT !.i = s.i + 1]
        ELSE IF ~ s.seen_chapter1 /\ ~ CHAPTER1_RE(raw) THEN [s EXCEPT !.i = s.i + 1]
        ELSE LET s1 == [s EXCEPT !.seen_chapter1 = TRUE]
             IN  IF FastForwards(s1, raw)
                 THEN [s1 EXCEPT !.context = "annex4", !.i = MinOf(Chapter5After(s1))]
                 ELSE LET s2 == ContextTransition(s1, raw)
                          s3 == IF InlineSplitGuard(raw) THEN InlineSplit(s2, raw) ELSE s2
                          raw2 == IF InlineSplitGuard(raw) THEN s3.lines[s3.i] ELSE raw
                      IN  IF SECTION_RE(raw2) THEN Header(s3, raw2)
                          ELSE FreeText(s3, raw2))

\* lines 428-432: id_key(a) < id_key(b), Python's list comparison
IdLess(a, b) ==
    \E p \in 1..(Min2(Len(a), Len(b)) + 1) :
        /\ SubSeq(a, 1, p - 1) = SubSeq(b, 1, p - 1)
        /\ \/ p > Len(a) /\ p <= Len(b)
           \/ p <= Len(a) /\ p <= Len(b) /\ a[p] < b[p]

\* A variant of lines 442-449 that ranks every context alike
context_key_flat(n) == 0

\* lines 442-449
context_key(n) ==
    IF n.context = "None" THEN 0
    ELSE IF n.context = "annex4" THEN 1
    ELSE IF n.context = "annex5" THEN 2
    ELSE 3

\* The two sort keys: id_key alone (line 435), (context_key, ids) (line 451)
KeyLess(h, a, b, byContext) ==
    IF byContext /\ context_key(h[a]) # context_key(h[b])
    THEN context_key(h[a]) < context_key(h[b])
    ELSE IdLess(h[a].id, h[b].id)

\* list.sort: stable; x goes before the first element that is greater than it
InsertSorted(h, sorted, x, byContext) ==
    LET later == {p \in 1..Len(sorted) : KeyLess(h, x, sorted[p], byContext)}
        at == IF later = {} THEN Len(sorted) + 1 ELSE MinOf(later)
    IN  SubSeq(sorted, 1, at - 1) \o <<x>> \o SubSeq(sorted, at, Len(sorted))

RECURSIVE SortFrom(_, _, _, _, _)
SortFrom(h, objs, n, sorted, byContext) ==
    IF n > Len(objs) THEN sorted
    ELSE Bind(InsertSorted(h, sorted, objs[n], byContext),
              LAMBDA longer : SortFrom(h, objs, n + 1, longer, byContext))

ListSort(h, objs, byContext) == SortFrom(h, objs, 1, <<>>, byContext)

\* A variant of lines 434-439 that leaves every children list in the order
\* in which the children were attached
sort_nodes_heap_skipped(h) == h

\* lines 434-439: sort_nodes(tree); every node is in the tree or below it, so
\* the recursion sorts every children list of the heap.
sort_nodes_heap(h) ==
    [o \in DOMAIN h |-> [h[o] EXCEPT !.children = ListSort(h, @, FALSE)]]

\* The forest below the list objs as a value: what the caller can observe of
\* it (fields and order), object identity aside.
RECURSIVE ForestValue(_, _)
ForestValue(h, objs) ==
    [p \in 1..Len(objs) |->
        [h[objs[p]] EXCEPT !.children = ForestValue(h, h[objs[p]].children)]]

----
\* matcher.py: the relevance tests

\* lines 7-13
_within_range(value, min_value, max_value) ==
    IF min_value # None /\ value < min_value[1] THEN FALSE
    ELSE IF max_value # None /\ value > max_value[1] THEN FALSE
    ELSE TRUE

\* A variant of lines 16-20 that reads an unset requirement as false
_bool_match_unset_false(user_value, req_value) ==
    IF req_value = None THEN ~ user_value ELSE user_value = req_value[1]

\* lines 16-20: None means "no constraint"
_bool_match(user_value, req_value) ==
    IF req_value = None THEN TRUE ELSE user_value = req_value[1]

\* lines 26-38
_node_matches_business(b, node) ==
    IF ~ _within_range(b.area_sqm, node.min_area_sqm, node.max_area_sqm) THEN FALSE
    ELSE IF ~ _within_range(b.seats, node.min_seats, node.max_seats) THEN FALSE
    ELSE IF ~ _bool_match(b.uses_gas, node.requires_gas) THEN FALSE
    ELSE IF ~ _bool_match(b.serves_meat, node.serves_meat) THEN FALSE
    ELSE IF ~ _bool_match(b.offers_delivery, node.offers_delivery) THEN FALSE
    ELSE TRUE

\* lines 86-94: \b(\d{1,4})\b finds every component of every number
_extract_ints(text) ==
    UNION {{text[p].k[c] : c \in {d \in 1..Len(text[p].k) : text[p].k[d] <= MaxDigitsValue}}
           : p \in 1..Len(text)}

\* lines 134-144: any_match(patterns, predicate), the predicate given by its
\* relation: the first match of some pattern satisfies it
Compare(rel, area_sqm, n) ==
    IF rel = "gt" THEN area_sqm > n
    ELSE IF rel = "lt" THEN area_sqm < n
    ELSE IF rel = "ge" THEN area_sqm >= n
    ELSE area_sqm <= n

any_match(t, patterns, rel, area_sqm) ==
    \E q \in 1..Len(patterns) :
        /\ SearchPhrase(t, patterns[q]) # None
        /\ Compare(rel, area_sqm, SearchPhrase(t, patterns[q])[1])

\* lines 97-155
_area_matches(t, area_sqm) ==
    IF ~ \E p \in 1..Len(t) : IsAreaTerm(t[p]) THEN FALSE
    ELSE IF area_sqm \in _extract_ints(t) THEN TRUE
    ELSE \/ any_match(t, gt_patterns, "gt", area_sqm)
         \/ any_match(t, lt_patterns, "lt", area_sqm)
         \/ any_match(t, ge_patterns, "ge", area_sqm)
         \/ any_match(t, le_patterns, "le", area_sqm)

\* lines 186-198: the whole-word keyword patterns
IsGasWord(t) == t.w \in {"gaz", "gapam"}
IsMeatWord(t) == t.w \in {"basar"}
IsDeliveryWord(t) == t.w \in {"mishloach"}

SeatsThreshold == 200
ReservedId == <<3, 2, 1>>

\* A variant of lines 161-163 without the seats rule
CarveOut_absent(b, node) == FALSE

\* A variant of lines 161-163 whose seats rule also takes the threshold itself
CarveOut_inclusive(b, node) == b.seats <= SeatsThreshold /\ node.id = ReservedId

\* lines 161-163: the seats rule
CarveOut(b, node) == b.seats < SeatsThreshold /\ node.id = ReservedId

\* lines 165-178: the structured pre-filters
Gates(b, node) ==
    /\ ~ (node.min_area_sqm # None /\ b.area_sqm < node.min_area_sqm[1])
    /\ ~ (node.max_area_sqm # None /\ b.area_sqm > node.max_area_sqm[1])
    /\ ~ (node.min_seats # None /\ b.seats < node.min_seats[1])
    /\ ~ (node.max_seats # None /\ b.seats > node.max_seats[1])
    /\ ~ (node.requires_gas # None /\ b.uses_gas # node.requires_gas[1])
    /\ ~ (node.serves_meat # None /\ b.serves_meat # node.serves_meat[1])
    /\ ~ (node.offers_delivery # None /\ b.offers_delivery # node.offers_delivery[1])

\* lines 180-199: the heuristic signals
Signals(b, node) ==
    LET text == node.text
    IN  \/ _area_matches(text, b.area_sqm)
        \/ b.uses_gas /\ \E p \in 1..Len(text) : IsGasWord(text[p])
        \/ b.serves_meat /\ \E p \in 1..Len(text) : IsMeatWord(text[p])
        \/ b.offers_delivery /\ \E p \in 1..Len(text) : IsDeliveryWord(text[p])

\* lines 158-199
_advanced_node_match(b, node) ==
    IF CarveOut(b, node) THEN FALSE
    ELSE IF ~ Gates(b, node) THEN FALSE
    ELSE Signals(b, node)

----
\* matcher.py: match_structure and match_structure_advanced

\* The flat index is a dict in insertion order: a sequence of [id, obj].
\* flat[id] = obj keeps the place of a key that is already there.
FlatSet(f, id, obj) ==
    IF \E q \in 1..Len(f) : f[q].id = id
    THEN [q \in 1..Len(f) |-> IF f[q].id = id THEN [id |-> id, obj |-> obj] ELSE f[q]]
    ELSE Append(f, [id |-> id, obj |-> obj])

FlatGet(f, id) ==
    IF \E q \in 1..Len(f) : f[q].id = id
    THEN f[CHOOSE q \in 1..Len(f) : f[q].id = id].obj
    ELSE 0

\* lines 214-218
RECURSIVE index_nodes(_, _, _, _)
index_nodes(h, nodes, p, f) ==
    IF p > Len(nodes) THEN f
    ELSE LET n == nodes[p]
             f1 == FlatSet(f, h[n].id, n)
             f2 == IF h[n].children # <<>> THEN index_nodes(h, h[n].children, 1, f1)
                   ELSE f1
         IN  index_nodes(h, nodes, p + 1, f2)

\* nid == prefix or nid.startswith(prefix + ".")
InSubtree(prefix, nid) == IsPrefixSeq(prefix, nid)

\* nid.rsplit('.', 1)[0]
ParentId(nid) == IF Len(nid) <= 1 THEN nid ELSE SubSeq(nid, 1, Len(nid) - 1)

\* lines 228-245: the copy build_subtree makes of n (no title is passed)
SubtreeCopy(n, children) ==
    SectionNode(n.id, n.level, None, n.text, n.context, n.group_level,
                n.min_area_sqm, n.max_area_sqm, n.min_seats, n.max_seats,
                n.requires_gas, n.serves_meat, n.offers_delivery, children)

\* lines 222-254: build_subtree(prefix, context) on heap h with index f.
\* Gives the heap with the copies added, the sources of the copies, and the
\* object returned (0 for None).
build_subtree(h, f, prefix, ctx) ==
    IF FlatGet(f, prefix) = 0 THEN [heap |-> h, from |-> <<>>, out |-> 0]
    ELSE LET descendants ==
                 SelectSeq([q \in 1..Len(f) |-> f[q].obj],
                           LAMBDA o : h[o].context = ctx /\ InSubtree(prefix, h[o].id))
             D == Len(descendants)
             base == Len(h)
             Linked(j) ==
                 SelectSeq([q \in 1..D |-> q],
                           LAMBDA q : /\ h[descendants[q]].id # prefix
                                      /\ ParentId(h[descendants[q]].id)
                                            = h[descendants[j]].id)
             copies == [j \in 1..D |->
                          SubtreeCopy(h[descendants[j]],
                                      [q \in 1..Len(Linked(j)) |-> base + Linked(j)[q]])]
             at == {j \in 1..D : h[descendants[j]].id = prefix}
         IN  [heap |-> h \o copies,
              from |-> descendants,
              out |-> IF at = {} THEN 0 ELSE base + MinOf(at)]

\* lines 267-281 (and 52-67 with the title): the copy dfs makes of node n
DfsCopy(n, keepTitle, matched_children) ==
    SectionNode(n.id, n.level, IF keepTitle THEN n.title ELSE None, n.text,
                n.context, n.group_level, n.min_area_sqm, n.max_area_sqm,
                n.min_seats, n.max_seats, n.requires_gas, n.serves_meat,
                n.offers_delivery, matched_children)

\* A variant of lines 47-50 / 257-261 that appends the child itself where
\* the source appends the node dfs returned for it
MatchedChildren_appending_child(h, r, o) ==
    SelectSeq(h[o].children, LAMBDA c : r[c] # 0)

\* lines 47-50 / 257-261
MatchedChildren(h, r, o) ==
    SelectSeq([q \in 1..Len(h[o].children) |-> r[h[o].children[q]]],
              LAMBDA x : x # 0)

\* lines 256-282: what dfs(node) does once its children have returned
dfs_advanced(h, f, r, b, o) ==
    LET matched_children == MatchedChildren(h, r, o)
    IN  IF _advanced_node_match(b, h[o])
        THEN build_subtree(h, f, h[o].id, h[o].context)
        ELSE IF matched_children # <<>>
        THEN [heap |-> Append(h, DfsCopy(h[o], FALSE, matched_children)),
              from |-> <<o>>, out |-> Len(h) + 1]
        ELSE [heap |-> h, from |-> <<>>, out |-> 0]

\* lines 45-68
dfs_basic(h, r, b, o) ==
    LET matched_children == MatchedChildren(h, r, o)
    IN  IF _node_matches_business(b, h[o]) \/ matched_children # <<>>
        THEN [heap |-> Append(h, DfsCopy(h[o], TRUE, matched_children)),
              from |-> <<o>>, out |-> Len(h) + 1]
        ELSE [heap |-> h, from |-> <<>>, out |-> 0]

\* The order in which the calls of dfs return: post-order
RECURSIVE PostOrder(_, _, _)
PostOrder(h, nodes, p) ==
    IF p > Len(nodes) THEN <<>>
    ELSE PostOrder(h, h[nodes[p]].children, 1) \o <<nodes[p]>>
         \o PostOrder(h, nodes, p + 1)

----
\* The inputs of the parser

MaxLines == 3
MaxCalls == 2

Chapter1Line == <<W("perek"), K(<<1>>)>>
ScenarioLine == <<K(<<3, 2, 1>>), W("drisha"), W("lagaz"), W("bashetach"),
                  W("meal"), K(<<100>>), W("mr")>>
TwoHeaderLine == <<K(<<2, 1>>), W("A"), K(<<2, 2>>), W("B")>>

LinePool ==
    { TwoHeaderLine,
      ScenarioLine,
      <<K(<<2, 1>>), W("A")>>,
      <<K(<<2, 1, 9>>), W("B")>>,
      <<K(<<2, 1, 10>>), W("A")>>,
      <<K(<<2, 1, 1, 1>>), W("gaz")>>,
      <<W("nispachim")>>,
      <<W("B")>>,
      <<Blank>> }

RECURSIVE SeqsOfLen(_, _)
SeqsOfLen(S, n) ==
    IF n = 0 THEN {<<>>}
    ELSE {Append(q, x) : q \in SeqsOfLen(S, n - 1), x \in S}

SeqsUpTo(S, n) == UNION {SeqsOfLen(S, m) : m \in 0..n}

InputLines ==
    {<<Chapter1Line>> \o r : r \in SeqsUpTo(LinePool, MaxLines)}
    \cup SeqsUpTo(LinePool, MaxLines - 1)

EmptyStacks == [roots |-> EmptyDict, level |-> [n \in 1..5 |-> EmptyDict]]

NoProfile == [area_sqm |-> 0, seats |-> 0, uses_gas |-> FALSE,
              serves_meat |-> FALSE, offers_delivery |-> FALSE]
NoNode == SectionNode(<<>>, 0, None, <<>>, "None", "None", None, None, None,
                      None, None, None, None, <<>>)

MatcherIdle ==
    /\ business = NoProfile
    /\ mode = "none"
    /\ nIn = 0
    /\ heap0 = <<>>
    /\ flat = <<>>
    /\ ret = <<>>
    /\ copyOf = <<>>
    /\ results = <<>>

RelIdle ==
    /\ relNode = NoNode
    /\ relOut = <<>>

Locals ==
    [lines |-> lines, i |-> i, seen_chapter1 |-> seen_chapter1,
     context |-> context, annex4_level |-> annex4_level,
     annex5_level |-> annex5_level, stacks |-> stacks,
     last_node |-> last_node, heap |-> heap, tree |-> tree]

SetLocals(s) ==
    /\ lines' = s.lines
    /\ i' = s.i
    /\ seen_chapter1' = s.seen_chapter1
    /\ context' = s.context
    /\ annex4_level' = s.annex4_level
    /\ annex5_level' = s.annex5_level
    /\ stacks' = s.stacks
    /\ last_node' = s.last_node
    /\ heap' = s.heap
    /\ tree' = s.tree

\* lines 120-143: the locals at the start of a call on the list ls
Entry(ls) ==
    [lines |-> ls, i |-> 1, seen_chapter1 |-> FALSE, context |-> "None",
     annex4_level |-> "None", annex5_level |-> "None", stacks |-> EmptyStacks,
     last_node |-> 0, heap |-> <<>>, tree |-> <<>>]

Init ==
    /\ pc = "parse"
    /\ lines0 \in InputLines
    /\ lines = lines0
    /\ i = 1
    /\ seen_chapter1 = FALSE
    /\ context = "None"
    /\ annex4_level = "None"
    /\ annex5_level = "None"
    /\ stacks = EmptyStacks
    /\ last_node = 0
    /\ heap = <<>>
    /\ tree = <<>>
    /\ calls = 1
    /\ prev = <<>>
    /\ MatcherIdle
    /\ RelIdle

\* One iteration of the while loop
ParseLine ==
    /\ pc = "parse"
    /\ i <= Len(lines)
    /\ \E s \in {Iterate(Locals)} : SetLocals(s)
    /\ UNCHANGED <<pc, calls, lines0, prev, business, matcherVars, relVars>>

\* lines 427-452: the loop has ended; sort and return
SortAndReturn ==
    /\ pc = "parse"
    /\ i > Len(lines)
    /\ \E h \in {sort_nodes_heap(heap)} :
          /\ heap' = h
          /\ \E by_id \in {ListSort(h, tree, FALSE)} :
                tree' = ListSort(h, by_id, TRUE)
    /\ pc' = "done"
    /\ UNCHANGED <<lines, i, seen_chapter1, context, annex4_level, annex5_level,
                   stacks, last_node, calls, lines0, prev, business,
                   matcherVars, relVars>>

\* The caller parses the list it holds once more
CallAgain ==
    /\ pc = "done"
    /\ calls < MaxCalls
    /\ prev' = ForestValue(heap, tree)
    /\ calls' = calls + 1
    /\ SetLocals(Entry(lines))
    /\ pc' = "parse"
    /\ UNCHANGED <<lines0, business, matcherVars, relVars>>

Next == ParseLine \/ SortAndReturn \/ CallAgain

Spec == Init /\ [][Next]_vars

----
\* The parser on documents with front matter, annex markers and chapter
\* markers

MaxCtxLines == 4

Annex5EndLine == <<W("nispach"), W("gimel"), W("-"), W("tofes"), W("bikoret"),
                   W("tavruit"), W("bebeit"), W("ochel")>>
Chapter5Line == <<W("perek"), K(<<5>>)>>
AnnexHeaderLine == <<K(<<4, 1>>), W("drishot"), W("tavrua")>>
Level1Line == <<K(<<3>>), W("A")>>

MarkerPool ==
    { Chapter1Line,
      <<W("nispachim")>>,
      ANNEX5_START,
      Annex5EndLine,
      Chapter5Line,
      AnnexHeaderLine,
      <<K(<<4, 1, 1, 1>>), W("gaz")>>,
      <<K(<<4, 1, 1, 1, 1>>), W("basar")>>,
      Level1Line,
      <<W("B")>> }

InputLinesCtx == UNION {[1..m -> MarkerPool] : m \in 0..MaxCtxLines}

InitCtx ==
    /\ pc = "parse"
    /\ lines0 \in InputLinesCtx
    /\ lines = lines0
    /\ i = 1
    /\ seen_chapter1 = FALSE
    /\ context = "None"
    /\ annex4_level = "None"
    /\ annex5_level = "None"
    /\ stacks = EmptyStacks
    /\ last_node = 0
    /\ heap = <<>>
    /\ tree = <<>>
    /\ calls = 1
    /\ prev = <<>>
    /\ MatcherIdle
    /\ RelIdle

NextCtx == ParseLine \/ SortAndReturn

SpecCtx == InitCtx /\ [][NextCtx]_vars

----
\* The parser on one header whose body holds comparative phrases

MaxBody == 5

BoundWords ==
    { W("shetach"), W("meal"), W("lefachot"), W("ad"), W("lo"), W("pachot"),
      W("me"), K(<<100>>), K(<<200>>) }

BoundHeaderKey == <<2, 1>>

InitBounds ==
    /\ pc = "parse"
    /\ \E m \in 1..MaxBody : \E body \in [1..m -> BoundWords] :
           lines0 = <<Chapter1Line, <<K(BoundHeaderKey)>> \o body>>
    /\ lines = lines0
    /\ i = 1
    /\ seen_chapter1 = FALSE
    /\ context = "None"
    /\ annex4_level = "None"
    /\ annex5_level = "None"
    /\ stacks = EmptyStacks
    /\ last_node = 0
    /\ heap = <<>>
    /\ tree = <<>>
    /\ calls = 1
    /\ prev = <<>>
    /\ MatcherIdle
    /\ RelIdle

NextBounds == ParseLine \/ SortAndReturn

SpecBounds == InitBounds /\ [][NextBounds]_vars

----
\* The parser, one call run to its end, on documents with several headers
\* on a line and with end-of-sub-appendix markers

MaxTermLines == 4

ThreeHeaderLine ==
    <<K(<<2, 1>>), W("A"), K(<<2, 2>>), W("B"), K(<<2, 3>>), W("C")>>

TermPool ==
    { TwoHeaderLine, ThreeHeaderLine, Annex5EndLine, Chapter5Line,
      <<W("nispachim")>>, <<W("B")>>, <<Blank>> }

InitTerm ==
    /\ pc = "parse"
    /\ \E m \in 0..MaxTermLines : \E r \in [1..m -> TermPool] :
           lines0 = <<Chapter1Line>> \o r
    /\ lines = lines0
    /\ i = 1
    /\ seen_chapter1 = FALSE
    /\ context = "None"
    /\ annex4_level = "None"
    /\ annex5_level = "None"
    /\ stacks = EmptyStacks
    /\ last_node = 0
    /\ heap = <<>>
    /\ tree = <<>>
    /\ calls = 1
    /\ prev = <<>>
    /\ MatcherIdle
    /\ RelIdle

NextTerm == ParseLine \/ SortAndReturn

\* The call is sequential code: an enabled step of it is taken.
SpecTerm ==
    InitTerm /\ [][NextTerm]_vars /\ WF_vars(ParseLine) /\ WF_vars(SortAndReturn)

----
\* The matcher: its inputs

MaxNodes == 3

IdPool == {<<3, 2>>, <<3, 2, 1>>, <<3, 2, 1, 1>>}
CtxPool == {"None", "annex4"}
BodyPool == {<<W("A")>>, <<W("gaz")>>}

\* A forest is described node by node in pre-order: what the header of the
\* node read (id, body, context) and the place (1-based) of its parent, 0 for
\* a root.  The forests are those the parser can return: a child's id extends
\* its parent's, children are in id order and roots in (context, id) order.
RightPath(F) ==
    LET RECURSIVE Up(_)
        Up(j) == IF j = 0 THEN {} ELSE {j} \cup Up(F[j].par)
    IN  Up(Len(F))

DescLess(a, b, byContext) ==
    LET ra == IF a.ctx = "None" THEN 0 ELSE 1
        rb == IF b.ctx = "None" THEN 0 ELSE 1
    IN  IF byContext /\ ra # rb THEN ra < rb ELSE IdLess(a.id, b.id)

CanExtend(F, d) ==
    /\ d.par \in {0} \cup RightPath(F)
    /\ d.par # 0 => IsPrefixSeq(F[d.par].id, d.id) /\ F[d.par].id # d.id
    /\ \A q \in 1..Len(F) :
          F[q].par = d.par => ~ DescLess(d, F[q], d.par = 0)

Descs(n) == [id : IdPool, ctx : CtxPool, body : BodyPool, par : 0..(n - 1)]

RECURSIVE ForestsOfSize(_)
ForestsOfSize(n) ==
    IF n = 0 THEN {<<>>}
    ELSE UNION {{Append(F, d) : d \in {e \in Descs(n) : CanExtend(F, e)}}
                : F \in ForestsOfSize(n - 1)}

InputForests == UNION {ForestsOfSize(n) : n \in 0..MaxNodes}

\* The objects of a described forest, as the parser builds them
ForestHeap(F) ==
    [j \in 1..Len(F) |->
        [NewNode(F[j].id, Len(F[j].id), F[j].body, F[j].ctx)
            EXCEPT !.children = AscSeq({q \in 1..Len(F) : F[q].par = j})]]
ForestRoots(F) == AscSeq({q \in 1..Len(F) : F[q].par = 0})

Profiles ==
    [area_sqm : {150}, seats : {50, 250}, uses_gas : BOOLEAN,
     serves_meat : {FALSE}, offers_delivery : {FALSE}]

ParserIdle ==
    /\ lines = <<>>
    /\ i = 1
    /\ seen_chapter1 = FALSE
    /\ context = "None"
    /\ annex4_level = "None"
    /\ annex5_level = "None"
    /\ stacks = EmptyStacks
    /\ last_node = 0
    /\ calls = 0
    /\ lines0 = <<>>
    /\ prev = <<>>

InitMatch ==
    /\ \E F \in InputForests :
          /\ heap = ForestHeap(F)
          /\ tree = ForestRoots(F)
    /\ business \in Profiles
    /\ mode \in {"advanced", "basic"}
    /\ pc = IF mode = "advanced" THEN "index" ELSE "dfs"
    /\ nIn = Len(heap)
    /\ heap0 = heap
    /\ flat = <<>>
    /\ ret = EmptyDict
    /\ copyOf = [o \in 1..Len(heap) |-> 0]
    /\ results = <<>>
    /\ ParserIdle
    /\ RelIdle

\* lines 212-220: index_nodes(tree)
IndexNodes ==
    /\ pc = "index"
    /\ flat' = index_nodes(heap, tree, 1, <<>>)
    /\ pc' = "dfs"
    /\ UNCHANGED <<heap, tree, business, mode, nIn, heap0, ret, copyOf, results,
                   parserVars, relVars>>

Pending == SelectSeq(PostOrder(heap, tree, 1), LAMBDA o : o \notin DOMAIN ret)

\* A call dfs(node) returns; for a root, lines 70-73 / 284-287 append its result
DfsReturn ==
    /\ pc = "dfs"
    /\ Pending # <<>>
    /\ LET o == Pending[1]
           d == IF mode = "advanced" THEN dfs_advanced(heap, flat, ret, business, o)
                ELSE dfs_basic(heap, ret, business, o)
       IN  /\ heap' = d.heap
           /\ copyOf' = copyOf \o d.from
           /\ ret' = Put(ret, o, d.out)
           /\ results' = IF (\E q \in 1..Len(tree) : tree[q] = o) /\ d.out # 0
                         THEN Append(results, d.out) ELSE results
    /\ UNCHANGED <<pc, tree, business, mode, nIn, heap0, flat, parserVars, relVars>>

\* return results
Return ==
    /\ pc = "dfs"
    /\ Pending = <<>>
    /\ pc' = "done"
    /\ UNCHANGED <<heap, tree, business, mode, nIn, heap0, flat, ret, copyOf,
                   results, parserVars, relVars>>

NextMatch == IndexNodes \/ DfsReturn \/ Return

SpecMatch == InitMatch /\ [][NextMatch]_vars

----
\* The relevance tests on their own: one node, one profile

ScenarioNode == NewNode(<<3, 2, 1>>, 3, SubSeq(ScenarioLine, 2, Len(ScenarioLine)), "None")
ScenarioProfile == [area_sqm |-> 150, seats |-> 50, uses_gas |-> TRUE,
                    serves_meat |-> FALSE, offers_delivery |-> FALSE]

TriState == {None, Some(TRUE), Some(FALSE)}
RelTexts == {<<>>, <<W("gaz")>>, <<W("basar")>>, <<W("mishloach")>>,
             ScenarioNode.text}

RelNodes ==
    {SectionNode(id, Len(id), None, text, ctx, "None", min_area, None, None, None,
                 rg, sm, od, <<>>) :
        id \in {<<3, 2>>, <<3, 2, 1>>}, text \in RelTexts, ctx \in CtxPool,
        min_area \in {None, Some(100)}, rg \in TriState, sm \in TriState,
        od \in TriState}
    \cup {ScenarioNode}

RelProfiles ==
    [area_sqm : {50, 150}, seats : {50, 200, 250}, uses_gas : BOOLEAN,
     serves_meat : BOOLEAN, offers_delivery : BOOLEAN]

InitRel ==
    /\ pc = "test"
    /\ relNode \in RelNodes
    /\ business \in RelProfiles
    /\ relOut = <<>>
    /\ heap = <<>>
    /\ tree = <<>>
    /\ mode = "none"
    /\ nIn = 0
    /\ heap0 = <<>>
    /\ flat = <<>>
    /\ ret = <<>>
    /\ copyOf = <<>>
    /\ results = <<>>
    /\ ParserIdle

\* The two tests are applied to the node
Evaluate ==
    /\ pc = "test"
    /\ relOut' = <<[advanced |-> _advanced_node_match(business, relNode),
                    basic |-> _node_matches_business(business, relNode)]>>
    /\ pc' = "done"
    /\ UNCHANGED <<relNode, business, heap, tree, matcherVars, parserVars>>

NextRel == Evaluate

SpecRel == InitRel /\ [][NextRel]_vars

----
\* Properties of the matcher (checked under SpecMatch)

Range(q) == {q[x] : x \in DOMAIN q}

\* The objects at and below object o
RECURSIVE Below(_, _)
Below(h, o) == {o} \cup UNION {Below(h, c) : c \in Range(h[o].children)}

InputObjs == 1..nIn
Roots == Range(tree)
\* The objects of the returned forest
Output == UNION {Below(heap, r) : r \in Range(results)}
\* Input object n has a copy in the returned forest
Appears(n) == \E x \in Output : copyOf[x] = n
Relevant(n) == _advanced_node_match(business, heap[n])
Ancestors(n) == {a \in InputObjs : a # n /\ n \in Below(heap, a)}
AdvancedDone == pc = "done" /\ mode = "advanced"

\* C1: context isolation.  A directly relevant root is in the output of
\* match_structure_advanced also when the forest holds another node with the
\* same id and a different context: the other node does not change the
\* inclusion of the first.
C1_ContextIsolation ==
    AdvancedDone =>
        \A n \in Roots : \A m \in InputObjs :
            (/\ m # n
             /\ heap[m].id = heap[n].id
             /\ heap[m].context # heap[n].context
             /\ Relevant(n)) => Appears(n)

\* C2: pruning monotonicity.  If N is directly relevant, every descendant of N
\* in the input forest that has N's context has a copy below a copy of N in
\* the output, orphans attached to N included.
C2_PruningMonotonicity ==
    AdvancedDone =>
        \A N \in InputObjs : Relevant(N) =>
            \A D \in Below(heap, N) \ {N} :
                heap[D].context = heap[N].context =>
                    \E x \in Output :
                        /\ copyOf[x] = N
                        /\ \E y \in Below(heap, x) \ {x} : copyOf[y] = D

\* No two nodes of the input forest have the same id
DistinctIds == \A m, n \in InputObjs : heap[m].id = heap[n].id => m = n

\* C3: ancestor inclusion.  If a node at depth 2 or more is directly relevant,
\* the node and every strict ancestor of it have a copy in the output.  Stated
\* for the forests in which no id repeats and the node has the context of all
\* its ancestors, where the claim is at its weakest.
C3_AncestorInclusion ==
    (AdvancedDone /\ DistinctIds) =>
        \A N \in InputObjs \ Roots :
            (/\ Relevant(N)
             /\ \A a \in Ancestors(N) : heap[a].context = heap[N].context)
                => \A a \in {N} \cup Ancestors(N) : Appears(a)

\* C5: the matcher neither mutates nor aliases its input.  At every point of
\* a call of match_structure or match_structure_advanced the input objects
\* are as they were before the call, and every object returned by dfs, held
\* in results or referenced as a child by a built object is a new object.
C5_InputUntouched ==
    /\ SubSeq(heap, 1, nIn) = heap0
    /\ \A r \in Range(results) : r > nIn
    /\ \A o \in DOMAIN ret : ret[o] = 0 \/ ret[o] > nIn
    /\ \A x \in (nIn + 1)..Len(heap) : \A c \in Range(heap[x].children) : c > nIn

\* C5 witness: a call has returned a forest in which a built node has children.
C5_Witness ==
    /\ pc = "done"
    /\ \E r \in Range(results) : heap[r].children # <<>>
    /\ nIn >= 2

----
\* Properties of the parser (checked under Spec)

FirstDone == pc = "done" /\ calls = 1

\* C4: multi-header split.  The line "2.1 A 2.2 B" after the Chapter 1 marker
\* yields node 2.1 with body "A" and node 2.2 with body "B".
C4_MultiHeaderSplit ==
    (FirstDone /\ lines0 = <<Chapter1Line, TwoHeaderLine>>) =>
        /\ Len(heap) = 2
        /\ \E a, b \in DOMAIN heap :
              /\ heap[a].id = <<2, 1>> /\ heap[a].text = <<W("A")>>
              /\ heap[b].id = <<2, 2>> /\ heap[b].text = <<W("B")>>

ChildIds(o) == [p \in 1..Len(heap[o].children) |-> heap[heap[o].children[p]].id]

C7_Idempotence ==
    (pc = "done" /\ calls >= 2) => ForestValue(heap, tree) = prev

----
\* Properties of the relevance tests (checked under SpecRel)

Tested == pc = "done" /\ relOut # <<>>

RangeGatesPass(b, node) ==
    /\ node.min_area_sqm = None \/ b.area_sqm >= node.min_area_sqm[1]
    /\ node.max_area_sqm = None \/ b.area_sqm <= node.max_area_sqm[1]
    /\ node.min_seats = None \/ b.seats >= node.min_seats[1]
    /\ node.max_seats = None \/ b.seats <= node.max_seats[1]

Disagrees(field, value) == field # None /\ field[1] # value

C9_ScenarioRelevant ==
    (Tested /\ relNode = ScenarioNode /\ business = ScenarioProfile)
        => relOut[1].advanced

\* C9 as amended: the scenario node (id 3.2.1, level 3, requires_gas true,
\* min_area_sqm 100, normal context) is not relevant for the scenario profile,
\* whose seat count 50 is below 200; it is relevant for the same profile with
\* a seat count of 200 or more.
C9_ScenarioCarvedOut ==
    (Tested /\ relNode = ScenarioNode
            /\ [business EXCEPT !.seats = 50] = ScenarioProfile) =>
        /\ relNode.id = <<3, 2, 1>> /\ relNode.level = 3
        /\ relNode.requires_gas = Some(TRUE) /\ relNode.min_area_sqm = Some(100)
        /\ relNode.context = "None"
        /\ relOut[1].advanced <=> business.seats >= 200

\* C9 witness: the scenario node has been tested against the scenario profile.
C9_Witness ==
    Tested /\ relNode = ScenarioNode /\ business = ScenarioProfile

\* C10: carve-out.  A node with the reserved id 3.2.1 is never relevant for a
\* profile with fewer than 200 seats; with 200 seats or more it is judged by
\* the ordinary gates and signals.
C10_CarveOut ==
    (Tested /\ relNode.id = <<3, 2, 1>>) =>
        /\ business.seats < 200 => ~ relOut[1].advanced
        /\ business.seats >= 200 =>
              (relOut[1].advanced <=> (Gates(business, relNode)
                                        /\ Signals(business, relNode)))

\* C10 witness: a node with the reserved id that every gate and a signal
\* admit was tested against a profile with fewer than 200 seats.
C10_Witness ==
    /\ Tested
    /\ relNode.id = <<3, 2, 1>> /\ business.seats < 200
    /\ Gates(business, relNode) /\ Signals(business, relNode)
    /\ relNode.context = "annex4"

----
\* Properties of the parser on documents with markers (checked under SpecCtx)

IsAnnex4Line(l) == IsPrefixSeq(ANNEX4_START, _normalize_whitespace(l))
IsAnnex5Line(l) == IsPrefixSeq(ANNEX5_START, _normalize_whitespace(l))
IsEndLine(l) == ANNEX5_END_RE(_normalize_whitespace(l))
IsChapter1Line(l) == CHAPTER1_RE(_normalize_whitespace(l))
IsChapter5Line(l) == CHAPTER5_RE(_normalize_whitespace(l))

\* The document opens with the Chapter 1 marker, holds no end-of-sub-appendix
\* marker, and reads the annex marker at a and the header 4.1 at b, with no
\* other marker between them and no other header 4.1
AnnexScenario(a, b) ==
    /\ Len(lines0) >= 3 /\ lines0[1] = Chapter1Line
    /\ 1 < a /\ a < b /\ b <= Len(lines0)
    /\ IsAnnex4Line(lines0[a]) /\ lines0[b] = AnnexHeaderLine
    /\ \A m \in 1..Len(lines0) :
          /\ ~ IsEndLine(lines0[m])
          /\ lines0[m] = AnnexHeaderLine => m = b
          /\ (a < m /\ m < b) =>
                ~ IsAnnex5Line(lines0[m]) /\ ~ IsChapter5Line(lines0[m])

NodesWithId(id) == {o \in DOMAIN heap : heap[o].id = id}

\* C11 as claimed: the annex marker followed later by the header 4.1 yields a
\* node 4.1 of context annex4 whose group_level is "4.1".
C11_AnnexGroupFirst ==
    (pc = "done" /\ \E a, b \in 1..Len(lines0) : AnnexScenario(a, b)) =>
        \E o \in NodesWithId(<<4, 1>>) :
            heap[o].context = "annex4" /\ heap[o].group_level = "4.1"

\* C11 as amended: the annex marker followed later by the header 4.1 yields
\* exactly one node 4.1; its context is annex4, its level is 2 and its
\* group_level is the label of level 2, "4.2".
C11_AnnexGroupByDepth ==
    (pc = "done" /\ \E a, b \in 1..Len(lines0) : AnnexScenario(a, b)) =>
        /\ Cardinality(NodesWithId(<<4, 1>>)) = 1
        /\ \A o \in NodesWithId(<<4, 1>>) :
              /\ heap[o].context = "annex4"
              /\ heap[o].level = 2
              /\ heap[o].group_level = "4.2"

\* C11 witness: the scenario was parsed with a line between the annex marker
\* and the header.
C11_Witness ==
    /\ pc = "done"
    /\ AnnexScenario(2, 4)
    /\ NodesWithId(<<4, 1>>) # {}

\* No line of ls up to position k begins with the Chapter 1 marker
BeforeChapter1(ls, k) == \A m \in 1..k : ~ IsChapter1Line(ls[m])

\* The builder's state: the nodes, the forest, the open node and the slots
Built == <<heap, tree, last_node, stacks>>

\* C13: front-matter skip.  Reading a line that precedes the first line that
\* begins with the Chapter 1 marker creates no node, extends no text and
\* leaves the context as it is, whatever the line carries; and a document
\* none of whose lines begins with the marker yields the empty forest.
C13_FrontMatterSkip ==
    /\ [][(pc = "parse" /\ i <= Len(lines) /\ BeforeChapter1(lines, i)) =>
             (Built' = Built /\ context' = context /\ lines' = lines)]_vars
    /\ []((pc = "done" /\ BeforeChapter1(lines0, Len(lines0))) =>
             (tree = <<>> /\ heap = <<>>))

\* C13 witness: an annex marker and a header were read before the Chapter 1
\* marker, and the header read after it became the only node, in normal
\* context.
C13_Witness ==
    /\ pc = "done"
    /\ Len(lines0) = 4
    /\ IsAnnex4Line(lines0[1]) /\ lines0[2] = AnnexHeaderLine
    /\ lines0[3] = Chapter1Line /\ lines0[4] = AnnexHeaderLine
    /\ Len(heap) = 1 /\ heap[1].context = "None"

\* Line k of the list follows an end-of-sub-appendix marker that was read
\* after the Chapter 1 marker, and no line from that marker up to line k
\* begins with the Chapter 5 marker
Discarding(k) ==
    \E e \in 1..(k - 1) :
        /\ IsEndLine(lines[e])
        /\ ~ BeforeChapter1(lines, e)
        /\ \A m \in (e + 1)..k : ~ IsChapter5Line(lines[m])

\* C14: sub-appendix end.  A line read after the end-of-sub-appendix marker
\* and before the next Chapter 5 marker creates no node and extends no text,
\* also when no Chapter 5 marker follows; reading a Chapter 5 marker makes
\* the context normal.
C14_SubAppendixEnd ==
    [][(pc = "parse" /\ i <= Len(lines)) =>
          /\ Discarding(i) => Built' = Built
          /\ (~ BeforeChapter1(lines, i) /\ IsChapter5Line(lines[i]))
                => context' = "None"]_vars

IsMarkerLine(l) ==
    IsAnnex4Line(l) \/ IsAnnex5Line(l) \/ IsEndLine(l) \/ IsChapter5Line(l)

\* The context that the most recent marker among the lines 1..k of ls sets:
\* normal up to and from the Chapter 1 marker, annex4 after the annex marker
\* or the end-of-sub-appendix marker, annex5 after the sub-appendix marker,
\* normal after the Chapter 5 marker
RECURSIVE Tracker(_, _)
Tracker(ls, k) ==
    IF k = 0 \/ BeforeChapter1(ls, k) THEN "None"
    ELSE IF IsAnnex4Line(ls[k]) THEN "annex4"
    ELSE IF IsAnnex5Line(ls[k]) THEN "annex5"
    ELSE IF IsEndLine(ls[k]) THEN "annex4"
    ELSE IF IsChapter5Line(ls[k]) THEN "None"
    ELSE Tracker(ls, k - 1)

\* C15: context tracking.  A node created on reading line i carries the
\* context set by the most recent marker among the lines up to i; a node
\* keeps its context and id; reading a line that is no marker leaves the
\* context as it is.
C15_ContextTracking ==
    [][(pc = "parse" /\ i <= Len(lines)) =>
          /\ \A o \in DOMAIN heap' \ DOMAIN heap :
                heap'[o].context = Tracker(lines, i)
          /\ \A o \in DOMAIN heap :
                /\ o \in DOMAIN heap'
                /\ heap'[o].context = heap[o].context
                /\ heap'[o].id = heap[o].id
          /\ ~ IsMarkerLine(lines[i]) => context' = context]_vars

\* C15 witness: a header read after a sub-appendix marker and an
\* end-of-sub-appendix marker became a node of context annex4.
C15_Witness ==
    /\ pc = "done"
    /\ Len(lines0) = 4 /\ lines0[1] = Chapter1Line
    /\ IsAnnex5Line(lines0[2]) /\ IsEndLine(lines0[3])
    /\ lines0[4] = AnnexHeaderLine
    /\ Len(heap) = 1 /\ heap[1].context = "annex4"

\* The lengths of the proper prefixes of key, shorter than its immediate
\* prefix, that the slot tables hold
StoredPrefixes(key) ==
    {p \in 1..(Len(key) - 2) : SubSeq(key, 1, p) \in DOMAIN stacks.level[p]}

\* C16: orphan handling.  A header of level 3 to 6 whose immediate-prefix
\* parent is in no slot becomes a child of the stored node whose id is the
\* longest proper prefix of its id, and a root only when no prefix is stored.
C16_NearestAncestor ==
    [][(pc = "parse" /\ i <= Len(lines)) =>
          \A o \in DOMAIN heap' \ DOMAIN heap :
              LET key == heap'[o].id
                  L == Len(key)
                  P == StoredPrefixes(key)
              IN  (/\ L >= 3
                   /\ SubSeq(key, 1, L - 1) \notin DOMAIN stacks.level[L - 1]) =>
                      IF P = {}
                      THEN o \in Range(tree')
                      ELSE LET a == stacks.level[MaxOf(P)][SubSeq(key, 1, MaxOf(P))]
                           IN  /\ o \in Range(heap'[a].children)
                               /\ o \notin Range(tree')]_vars

\* The rank of a context in the returned forest
ContextRank(c) == CASE c = "None" -> 0 [] c = "annex4" -> 1 [] c = "annex5" -> 2

\* C19: root ordering.  In the returned forest every normal-context root
\* precedes every annex-A root, which precedes every annex-B root, and roots
\* of one context are in non-decreasing component-wise integer order of id.
C19_RootOrdering ==
    pc = "done" =>
        \A p, q \in 1..Len(tree) :
            p < q =>
                LET a == heap[tree[p]]
                    b == heap[tree[q]]
                IN  /\ ContextRank(a.context) <= ContextRank(b.context)
                    /\ a.context = b.context => ~ IdLess(b.id, a.id)

\* C19 witness: a returned forest whose normal-context root has the greater
\* id and still precedes the annex-A root (4.1.1.1 before the annex's 4.1).
C19_Witness ==
    /\ pc = "done"
    /\ Len(tree) = 2
    /\ heap[tree[1]].context = "None" /\ heap[tree[1]].id = <<4, 1, 1, 1>>
    /\ heap[tree[2]].context = "annex4" /\ heap[tree[2]].id = <<4, 1>>

\* A line that starts with a number of one component followed by text
IsLevel1Header(raw) == Len(raw) >= 2 /\ Len(raw[1].k) = 1 /\ raw[2].k = <<>>

\* C20: level-1 headers in normal context.  An iteration that reads, after
\* Chapter 1 and in normal context, a line made of a single-component number
\* and text creates no node, appends nothing to any node's text and closes
\* the open node, so that free text after it is appended to nothing.
C20_Level1Header ==
    [][(/\ pc = "parse" /\ i <= Len(lines)
        /\ seen_chapter1 /\ context = "None"
        /\ IsLevel1Header(_normalize_whitespace(lines[i])))
          => heap' = heap /\ tree' = tree /\ last_node' = 0]_vars

\* The fields of a node other than its text
NonText(n) == [n EXCEPT !.text = <<>>]

\* C22: frame of a free-text line.  An iteration on a line that is no header
\* adds and removes no node, leaves the roots and every children list as they
\* are, changes no field other than text, and changes the text of no node
\* other than the most recently created one.
C22_FreeTextFrame ==
    [][(/\ pc = "parse" /\ i <= Len(lines)
        /\ ~ SECTION_RE(_normalize_whitespace(lines[i])))
          => /\ DOMAIN heap' = DOMAIN heap
             /\ tree' = tree
             /\ \A o \in DOMAIN heap :
                   /\ NonText(heap'[o]) = NonText(heap[o])
                   /\ o # Len(heap) => heap'[o].text = heap[o].text]_vars

\* C22 witness: a free-text line was read after two headers; the text of the
\* second node holds it and the text of the first does not.
C22_Witness ==
    /\ pc = "done"
    /\ lines0 = <<Chapter1Line, AnnexHeaderLine,
                  <<K(<<4, 1, 1, 1>>), W("gaz")>>, <<W("B")>>>>
    /\ Len(heap) = 2
    /\ heap[1].text = <<W("drishot"), W("tavrua")>>
    /\ heap[2].text = <<W("gaz"), W("B")>>

\* C24: context consistency of the tree.  In the returned forest every child
\* has the context of its parent: a header read in one numbering context is
\* never attached under a node created in another.
C24_ContextConsistency ==
    pc = "done" =>
        \A o \in DOMAIN heap : \A c \in Range(heap[o].children) :
            heap[c].context = heap[o].context

----
\* Further properties of the parser (checked under Spec)

\* The document opens with the Chapter 1 marker and reads the scenario header
\* once, at b, with no annex marker before it
ScenarioAt(b) ==
    /\ lines0[1] = Chapter1Line
    /\ 1 < b /\ b <= Len(lines0)
    /\ \A m \in 1..Len(lines0) :
          /\ lines0[m] = ScenarioLine <=> m = b
          /\ m < b => ~ IsAnnex4Line(lines0[m]) /\ ~ IsAnnex5Line(lines0[m])
                      /\ ~ IsEndLine(lines0[m])

\* C12: the scenario header, read in normal context after the Chapter 1
\* marker, produces exactly one node with id 3.2.1; it has level 3,
\* requires_gas true, min_area_sqm 100, max_area_sqm unset and context None.
C12_ScenarioParse ==
    (pc = "done" /\ \E b \in 1..Len(lines0) : ScenarioAt(b)) =>
        /\ Cardinality(NodesWithId(<<3, 2, 1>>)) = 1
        /\ \A o \in NodesWithId(<<3, 2, 1>>) :
              /\ heap[o].level = 3
              /\ heap[o].requires_gas = Some(TRUE)
              /\ heap[o].min_area_sqm = Some(100)
              /\ heap[o].max_area_sqm = None
              /\ heap[o].context = "None"

\* C12 witness: the scenario header was parsed as the last of three lines.
C12_Witness ==
    /\ pc = "done" /\ calls = 1
    /\ Len(lines0) = 3 /\ ScenarioAt(3)
    /\ NodesWithId(<<3, 2, 1>>) # {}

\* C18: the caller's list is left unchanged.  When the first call on a list
\* has returned, the list holds the same lines in the same order as when it
\* was passed, also when lines carried several headers.
C18_LinesUnchanged == FirstDone => lines = lines0

----
\* Further properties of the matcher (checked under SpecMatch)

\* The fields of a node other than its children
OwnFields(n) == [n EXCEPT !.children = <<>>]

\* C17: verbatim copies.  Every node of the output of match_structure_advanced
\* has the id, level, title, text, context, group_level and bound fields of
\* the input node it copies.
C17_VerbatimCopies ==
    AdvancedDone =>
        \A x \in Output : OwnFields(heap[x]) = OwnFields(heap[copyOf[x]])

\* C23: the seats rule on the returned forest.  When the profile's seat count
\* is below 200, no node of the forest returned by match_structure_advanced
\* has the id 3.2.1, at any depth.
C23_ReservedNeverShown ==
    (AdvancedDone /\ business.seats < SeatsThreshold) =>
        \A x \in Output : heap[x].id # ReservedId

----
\* Properties of the bound extractor (checked under SpecBounds)

\* The body of the header read
BoundBody == Tail(lines0[2])

\* The values of all occurrences in t of the phrases of the list patterns
AllValues(t, patterns) ==
    {t[p + Len(patterns[n])].k[1] :
        <<n, p>> \in {x \in (1..Len(patterns)) \X (1..Len(t)) :
                        PhraseAt(t, patterns[x[1]], x[2])}}

LowerValues(t) == AllValues(t, gt_patterns) \cup AllValues(t, ge_patterns)
UpperValues(t) == AllValues(t, lt_patterns) \cup AllValues(t, le_patterns)

HasAreaTerm(t) == \E p \in 1..Len(t) : t[p].w \in {"shetach", "mr"}
HasBetween(t) == \E p \in 1..Len(t) : BetweenAt(t, p)

\* C21: most-restrictive-wins folding.  For a body with an area term and no
\* between phrase, the node's min_area_sqm is the largest value among all the
\* lower-bound phrases of the body and its max_area_sqm the smallest value
\* among all the upper-bound phrases, also when a phrase form is repeated.
C21_MostRestrictive ==
    (pc = "done" /\ HasAreaTerm(BoundBody) /\ ~ HasBetween(BoundBody)) =>
        \A o \in DOMAIN heap :
            /\ heap[o].min_area_sqm =
                  (IF LowerValues(BoundBody) = {} THEN None
                   ELSE Some(MaxOf(LowerValues(BoundBody))))
            /\ heap[o].max_area_sqm =
                  (IF UpperValues(BoundBody) = {} THEN None
                   ELSE Some(MinOf(UpperValues(BoundBody))))

----
\* Termination of the parser (checked under SpecTerm)

\* The number of dotted keys on the lines ls
RECURSIVE KeyCount(_)
KeyCount(ls) ==
    IF ls = <<>> THEN 0
    ELSE Len(SelectSeq(Head(ls), IsKey)) + KeyCount(Tail(ls))

\* C25: termination.  Every call returns; every loop iteration moves the
\* index forward, also on the end-of-sub-appendix marker, and the list never
\* grows by more lines than the document holds keys.
C25_Termination ==
    /\ <>(pc = "done")
    /\ [][pc' = "parse" => /\ i' > i
                           /\ Len(lines') <= Len(lines0) + KeyCount(lines0)]_vars

\* C25 witness: a call has returned on a document that made it insert lines
\* and then jump from the end marker over a line to the Chapter 5 marker.
C25_Witness ==
    /\ pc = "done"
    /\ lines0 = <<Chapter1Line, ThreeHeaderLine, Annex5EndLine, <<W("B")>>,
                  Chapter5Line>>
    /\ Len(lines) = Len(lines0) + 2
    /\ Len(heap) = 1 /\ W("B") \notin Range(heap[1].text)
====
